---- MODULE Spec2Model ----
(***************************************************************************)
(* A model of my_cont (src/my_cont/__main__.py): a command-line tool that  *)
(* pulls an image, ensures a network, runs a container with a health       *)
(* check, polls the engine until the container is healthy and prints the   *)
(* container's addresses.                                                  *)
(*                                                                         *)
(* An invocation is a process p whose position pc[p] is the function it is *)
(* about to execute; every engine call is one atomic step.  The container  *)
(* engine is the shared state: its networks, its local image tags and the  *)
(* containers the invocations start.  The engine may refuse any call       *)
(* (APIError); its health probe and the container's exit are steps of the  *)
(* environment.                                                            *)
(*                                                                         *)
(* Optional[str] is modelled as a sequence: None is <<>>, a given string s *)
(* is <<s>>.  Strings are TLA+ strings; f-strings are built with \o.       *)
(***************************************************************************)
EXTENDS Integers, Sequences, FiniteSets, TLC

\* Number of invocations of the tool that run against the same engine in
\* the concurrent specification.
NumProcs == 2

Procs == 1..NumProcs

None == <<>>
Some(s) == <<s>>

DEFAULT_NETWORK_NAME == "cont_net"

Services == {"pg", "timescale", "rmq", "redis", "scylla", "nats", "zk", "kafka"}

\* ---------------------------------------------------------------- options

\* The repository each subcommand passes to pull_img.
Repo(svc) ==
    CASE svc = "pg" -> "postgres"
      [] svc = "timescale" -> "timescale/timescaledb"
      [] svc = "rmq" -> "rabbitmq"
      [] svc = "redis" -> "redis"
      [] svc = "scylla" -> "scylladb/scylla"
      [] svc = "nats" -> "nats"
      [] svc = "zk" -> "bitnami/zookeeper"
      [] svc = "kafka" -> "bitnami/kafka"

\* The default of each subcommand's --tag option.
DefaultTag(svc) ==
    CASE svc = "pg" -> "16.3-bookworm"
      [] svc = "timescale" -> "2.15.3-pg16"
      [] svc = "rmq" -> "3.13-management"
      [] svc = "redis" -> "7-bookworm"
      [] svc = "scylla" -> "6.0.1"
      [] svc = "nats" -> "2.9-alpine"
      [] svc = "zk" -> "3.9.2"
      [] svc = "kafka" -> "3.7-debian-12"

\* The default of each subcommand's --port option.
DefaultPort(svc) ==
    CASE svc = "pg" -> 5432
      [] svc = "timescale" -> 5432
      [] svc = "rmq" -> 5672
      [] svc = "redis" -> 6379
      [] svc = "scylla" -> 9042
      [] svc = "nats" -> 4222
      [] svc = "zk" -> 2181
      [] svc = "kafka" -> 9094

\* The default of --db-name (pg, timescale); the other subcommands have no
\* such option and the field is unused.
DefaultDbName(svc) ==
    CASE svc = "pg" -> "postgres"
      [] svc = "timescale" -> "timescale"
      [] OTHER -> ""

\* The values the model draws the options from.
Names == {None, Some(""), Some("db1")}
Networks == {DEFAULT_NETWORK_NAME, "dev_net"}
TagsOf(svc) == {DefaultTag(svc), "latest"}
PortsOf(svc) == {DefaultPort(svc), 18080}
UiPortsOf(svc) == IF svc = "rmq" THEN {15672, 18081} ELSE {15672}

\* The parsed command line of one invocation.
ArgsOf(svc) ==
    [svc : {svc}, name : Names, network : Networks, tag : TagsOf(svc),
     port : PortsOf(svc), ui_port : UiPortsOf(svc),
     db_name : {DefaultDbName(svc)}, username : {"guest"}, password : {"guest"}]

AllArgs == UNION {ArgsOf(svc) : svc \in Services}

\* The command lines of the concurrent specification: default options, any
\* network, two of the subcommands.
ConcArgs ==
    {a \in UNION {ArgsOf(svc) : svc \in {"pg", "redis"}} :
        /\ a.name = None
        /\ a.tag = DefaultTag(a.svc)
        /\ a.port = DefaultPort(a.svc)}

NoArgs == [svc |-> "pg", name |-> None, network |-> DEFAULT_NETWORK_NAME,
           tag |-> DefaultTag("pg"), port |-> DefaultPort("pg"), ui_port |-> 15672,
           db_name |-> DefaultDbName("pg"), username |-> "guest", password |-> "guest"]

\* ------------------------------------------------- the subcommands' run calls

\* Python's `name or default` on an Optional[str]: None and "" are falsy.
OrFirstGiven(name, default) ==
    IF name # None THEN name[1] ELSE default

Or(name, default) ==
    IF name = None \/ name[1] = "" THEN default ELSE name[1]

\* volumes = None; if name is not None: volumes = {f"{name}<suffix>": {...}}
VolumesIfTruthy(name, suffix, bind) ==
    IF name = None \/ name[1] = ""
    THEN None
    ELSE (name[1] \o suffix) :> [bind |-> bind, mode |-> "rw"]

Volumes(name, suffix, bind) ==
    IF name # None
    THEN (name[1] \o suffix) :> [bind |-> bind, mode |-> "rw"]
    ELSE None

\* A healthcheck dict; interval and timeout are written in the source as
\* n * 1000 * 1000000 nanoseconds and kept here as the n seconds.
Healthcheck(test, interval, timeout, retries) ==
    [test |-> test, interval_s |-> interval, timeout_s |-> timeout, retries |-> retries]

\* The keyword arguments of docker.containers.run, one operator per
\* subcommand; a is the command line and img what pull_img returned.
\* A keyword the subcommand does not pass has docker's default, None.
pg(a, img) ==
    [name |-> a.name, image |-> img, remove |-> TRUE, detach |-> TRUE,
     network |-> a.network, hostname |-> Or(a.name, "pg"),
     healthcheck |-> Healthcheck("pg_isready -U " \o a.db_name, 2, 3, 40),
     ports |-> ("5432" :> a.port),
     volumes |-> Volumes(a.name, "-pg-db", "/var/lib/postgresql/data"),
     environment |-> ("POSTGRES_PASSWORD" :> a.db_name) @@ ("POSTGRES_USER" :> a.db_name)
                     @@ ("POSTGRES_DB" :> a.db_name),
     command |-> None]

timescale(a, img) ==
    [name |-> a.name, image |-> img, remove |-> TRUE, detach |-> TRUE,
     network |-> a.network, hostname |-> Or(a.name, "timescale"),
     healthcheck |-> Healthcheck("pg_isready -U " \o a.db_name, 2, 3, 40),
     ports |-> ("5432" :> a.port),
     volumes |-> Volumes(a.name, "-ts-db", "/var/lib/postgresql/data"),
     environment |-> ("POSTGRES_PASSWORD" :> a.db_name) @@ ("POSTGRES_USER" :> a.db_name)
                     @@ ("POSTGRES_DB" :> a.db_name),
     command |-> None]

rmq(a, img) ==
    [name |-> a.name, image |-> img, remove |-> TRUE, detach |-> TRUE,
     network |-> a.network, hostname |-> Or(a.name, "rmq"),
     healthcheck |-> Healthcheck("rabbitmq-diagnostics check_running -q", 3, 3, 50),
     ports |-> ("5672" :> a.port) @@ ("15672" :> a.ui_port),
     volumes |-> None,
     environment |-> ("RABBITMQ_DEFAULT_USER" :> a.username)
                     @@ ("RABBITMQ_DEFAULT_PASS" :> a.password)
                     @@ ("RABBITMQ_DEFAULT_VHOST" :> "/"),
     command |-> None]

redis(a, img) ==
    [name |-> a.name, image |-> img, remove |-> TRUE, detach |-> TRUE,
     network |-> a.network, hostname |-> Or(a.name, "redis"),
     healthcheck |-> Healthcheck("redis-cli ping", 1, 3, 50),
     ports |-> ("6379" :> a.port),
     volumes |-> None,
     environment |-> None,
     command |-> None]

scylla(a, img) ==
    [name |-> a.name, image |-> img, remove |-> TRUE, detach |-> TRUE,
     network |-> a.network, hostname |-> Or(a.name, "scylla"),
     healthcheck |-> Healthcheck("cqlsh -e 'select * from system.local'", 5, 5, 60),
     ports |-> ("9042" :> a.port),
     volumes |-> Volumes(a.name, "-scylla-db", "/var/lib/scylla"),
     environment |-> None,
     command |-> <<"--skip-wait-for-gossip-to-settle", "0">>]

nats(a, img) ==
    [name |-> a.name, image |-> img, remove |-> TRUE, detach |-> TRUE,
     network |-> a.network, hostname |-> Or(a.name, "nats"),
     healthcheck |-> Healthcheck(
         <<"CMD", "sh", "-c",
           "wget http://localhost:8222/healthz -q -O - | xargs | grep ok || exit 1">>,
         5, 3, 20),
     ports |-> ("4222" :> a.port),
     volumes |-> None,
     environment |-> None,
     command |-> <<"-m", "8222", "--jetstream">>]

zk(a, img) ==
    [name |-> a.name, image |-> img, remove |-> TRUE, detach |-> TRUE,
     network |-> a.network, hostname |-> Or(a.name, "zk"),
     healthcheck |-> Healthcheck("zkServer.sh status", 1, 3, 30),
     ports |-> ("2181" :> a.port),
     volumes |-> None,
     environment |-> ("ALLOW_ANONYMOUS_LOGIN" :> "yes") @@ ("ZOO_LOG_LEVEL" :> "ERROR"),
     command |-> None]

kafka(a, img) ==
    LET hostname == Or(a.name, "kafka") IN
    [name |-> a.name, image |-> img, remove |-> TRUE, detach |-> TRUE,
     network |-> a.network, hostname |-> hostname,
     healthcheck |-> Healthcheck(
         "kafka-topics.sh --list --bootstrap-server localhost:9092", 1, 3, 30),
     ports |-> ("9094" :> a.port),
     volumes |-> None,
     environment |->
         ("KAFKA_CFG_NODE_ID" :> "0")
         @@ ("KAFKA_CFG_PROCESS_ROLES" :> "controller,broker")
         @@ ("KAFKA_CFG_LISTENERS" :>
                "PLAINTEXT://:9092,CONTROLLER://:9093,EXTERNAL://:9094")
         @@ ("KAFKA_CFG_ADVERTISED_LISTENERS" :>
                "PLAINTEXT://kafka:9092,EXTERNAL://localhost:9094")
         @@ ("KAFKA_CFG_LISTENER_SECURITY_PROTOCOL_MAP" :>
                "CONTROLLER:PLAINTEXT,EXTERNAL:PLAINTEXT,PLAINTEXT:PLAINTEXT")
         @@ ("KAFKA_CFG_CONTROLLER_QUORUM_VOTERS" :> ("0@" \o hostname \o ":9093"))
         @@ ("KAFKA_CFG_CONTROLLER_LISTENER_NAMES" :> "CONTROLLER")
         @@ ("KAFKA_CFG_AUTO_CREATE_TOPICS_ENABLE" :> "true")
         @@ ("KAFKA_CFG_OFFSETS_TOPIC_REPLICATION_FACTOR" :> "1"),
     command |-> None]

\* typer's dispatch: the run call of the subcommand the command line names.
RunKwargs(a, img) ==
    CASE a.svc = "pg" -> pg(a, img)
      [] a.svc = "timescale" -> timescale(a, img)
      [] a.svc = "rmq" -> rmq(a, img)
      [] a.svc = "redis" -> redis(a, img)
      [] a.svc = "scylla" -> scylla(a, img)
      [] a.svc = "nats" -> nats(a, img)
      [] a.svc = "zk" -> zk(a, img)
      [] a.svc = "kafka" -> kafka(a, img)

\* ------------------------------------------------------------- the engine

\* An image reference is a (repository, tag) pair, written "repo:tag".
AllRefs == UNION {{<<Repo(svc), t>> : t \in TagsOf(svc)} : svc \in Services}

RefStr(ref) == ref[1] \o ":" \o ref[2]

\* The image a reference names in the registry, by a number that identifies
\* it within its repository: a moving tag and a release are different images.
Registry(ref) == IF ref[2] = "latest" THEN 2 ELSE 1

\* docker.images.pull(repo, tag=tag): the local reference repo:tag now names
\* the registry's image.
ImagesPull(tags, repo, tag) ==
    [tags EXCEPT ![<<repo, tag>>] = Registry(<<repo, tag>>)]

\* attrs["RepoTags"] of image id of repository repo: every local reference
\* that names it.
RepoTags(tags, repo, id) ==
    {r \in DOMAIN tags : r[1] = repo /\ tags[r] = id}

\* What pull_img may return: RepoTags[0] of the pulled image.  The engine
\* decides the order of RepoTags, so any of its references may come first.
pull_img_fixed_tag(tags, repo, tag) ==
    {RefStr(<<repo, "latest">>)}

pull_img(tags, repo, tag) ==
    LET pulled_tags == ImagesPull(tags, repo, tag)
        id == pulled_tags[<<repo, tag>>]
    IN {RefStr(r) : r \in RepoTags(pulled_tags, repo, id)}

\* The reference an image string names.
RefOf(imgStr) == CHOOSE r \in AllRefs : RefStr(r) = imgStr

\* containers.run resolves image=... in the local store and pulls it when it
\* is not there.
ResolveImage(tags, imgStr) ==
    IF tags[RefOf(imgStr)] # 0 THEN tags[RefOf(imgStr)] ELSE Registry(RefOf(imgStr))

\* An image: its repository and its number in it.
Image(repo, id) == <<repo, id>>

\* The outcomes of the engine calls.  Any call may fail with an APIError.
NetworksGetOutcomes(n) ==
    IF n >= 1 THEN {"ok", "APIError"} ELSE {"NotFound", "APIError"}

\* Creating a network whose name is taken either fails with a conflict or,
\* on an engine that does not check for duplicates, adds a second network
\* of that name.
NetworksCreateOutcomes(n) ==
    IF n >= 1 THEN {"ok", "Conflict", "APIError"} ELSE {"ok", "APIError"}

ContainersGetOutcomes(h) ==
    IF h \in {"none", "gone"} THEN {"NotFound", "APIError"} ELSE {"ok", "APIError"}

HealthStates == {"starting", "healthy", "unhealthy"}

\* --------------------------------------------------------- the invocation

VARIABLES
    pc,             \* pc[p]: the function invocation p is about to execute
    args,           \* args[p]: its command line
    img,            \* img[p]: what pull_img returned (None before)
    health_status,  \* health_status[p]: the status the last poll read
    networks,       \* engine: networks[n], the number of networks named n
    localTags,      \* engine: the image each local reference names (0: none)
    health,         \* engine: the state of the container p started
    calls,          \* history: the engine calls p issued, consecutive polls merged
    out,            \* history: what p printed
    raised,         \* history: the engine errors raised in p, as <<step, error>>
    observed,       \* history: every status a poll of p read
    found,          \* history: the outcome of p's network lookup
    netsBefore,     \* history: the networks when p looked its network up
    createKw,       \* history: the arguments of p's networks.create
    runKw,          \* history: the keyword arguments of p's containers.run
    runImage,       \* history: the image the engine ran for p (None before)
    pulled          \* history: the image p's pull fetched (None before)

vars == <<pc, args, img, health_status, networks, localTags, health, calls, out,
          raised, observed, found, netsBefore, createKw, runKw, runImage, pulled>>

\* The body of a subcommand: the function that follows each function.
After_run_before_network(step) ==
    CASE step = "pull_img" -> "run"
      [] step = "declare_network" -> "wait_healtcheck"
      [] step = "networks_create" -> "wait_healtcheck"
      [] step = "run" -> "declare_network"
      [] step = "wait_healtcheck" -> "print_network_settings"
      [] step = "print_network_settings" -> "done"

After(step) ==
    CASE step = "pull_img" -> "declare_network"
      [] step = "declare_network" -> "run"
      [] step = "networks_create" -> "run"
      [] step = "run" -> "wait_healtcheck"
      [] step = "wait_healtcheck" -> "print_network_settings"
      [] step = "print_network_settings" -> "done"

\* declare_network after docker.networks.get: the try/except.  NotFound is
\* caught and the network created; any other error propagates.
declare_network_always_create(outcome) ==
    CASE outcome = "ok" -> "networks_create"
      [] outcome = "NotFound" -> "networks_create"
      [] OTHER -> "failed"

declare_network_catch_all(outcome) ==
    CASE outcome = "ok" -> After("declare_network")
      [] OTHER -> "networks_create"

declare_network(outcome) ==
    CASE outcome = "ok" -> After("declare_network")
      [] outcome = "NotFound" -> "networks_create"
      [] OTHER -> "failed"

\* ready = health_status == "healthy"
Ready_not_starting(status) == status # "starting"

Ready_never(status) == FALSE

Ready(status) == status = "healthy"

Last(s) == s[Len(s)]

\* The call log: a poll that follows a poll is not written again.
Log(log, step) ==
    IF step = "wait_healtcheck" /\ Len(log) > 0 /\ Last(log) = step
    THEN log
    ELSE Append(log, step)

Raise(p, step, e) == raised' = [raised EXCEPT ![p] = @ \cup {<<step, e>>}]

\* img = pull_img(docker, repo, tag)
PullImg(p) ==
    /\ pc[p] = "pull_img"
    /\ calls' = [calls EXCEPT ![p] = Log(@, "pull_img")]
    /\ \E outcome \in {"ok", "APIError"} :
        IF outcome = "ok"
        THEN /\ localTags' = ImagesPull(localTags, Repo(args[p].svc), args[p].tag)
             /\ pulled' = [pulled EXCEPT ![p] = Image(Repo(args[p].svc),
                                     localTags'[<<Repo(args[p].svc), args[p].tag>>])]
             /\ \E r \in pull_img(localTags, Repo(args[p].svc), args[p].tag) :
                    img' = [img EXCEPT ![p] = Some(r)]
             /\ pc' = [pc EXCEPT ![p] = After("pull_img")]
             /\ UNCHANGED raised
        ELSE /\ Raise(p, "pull_img", outcome)
             /\ pc' = [pc EXCEPT ![p] = "failed"]
             /\ UNCHANGED <<localTags, pulled, img>>
    /\ UNCHANGED <<args, health_status, networks, health, out, observed, found,
                   netsBefore, createKw, runKw, runImage>>

\* declare_network: docker.networks.get(network) and the except clause
DeclareNetwork(p) ==
    /\ pc[p] = "declare_network"
    /\ calls' = [calls EXCEPT ![p] = Log(@, "declare_network")]
    /\ netsBefore' = [netsBefore EXCEPT ![p] = networks]
    /\ \E outcome \in NetworksGetOutcomes(networks[args[p].network]) :
        /\ found' = [found EXCEPT ![p] = outcome]
        /\ IF outcome = "ok" THEN UNCHANGED raised ELSE Raise(p, "declare_network", outcome)
        /\ pc' = [pc EXCEPT ![p] = declare_network(outcome)]
    /\ UNCHANGED <<args, img, health_status, networks, localTags, health, out, observed,
                   createKw, runKw, runImage, pulled>>

\* declare_network: docker.networks.create(network, attachable=True)
NetworksCreate(p) ==
    /\ pc[p] = "networks_create"
    /\ calls' = [calls EXCEPT ![p] = Log(@, "networks_create")]
    /\ createKw' = [createKw EXCEPT ![p] = Some([name |-> args[p].network, attachable |-> TRUE])]
    /\ \E outcome \in NetworksCreateOutcomes(networks[args[p].network]) :
        IF outcome = "ok"
        THEN /\ networks' = [networks EXCEPT ![args[p].network] = @ + 1]
             /\ pc' = [pc EXCEPT ![p] = After("networks_create")]
             /\ UNCHANGED raised
        ELSE /\ Raise(p, "networks_create", outcome)
             /\ pc' = [pc EXCEPT ![p] = "failed"]
             /\ UNCHANGED networks
    /\ UNCHANGED <<args, img, health_status, localTags, health, out, observed, found,
                   netsBefore, runKw, runImage, pulled>>

\* container = docker.containers.run(...); container_ready prints that the
\* container started
Run(p) ==
    /\ pc[p] = "run"
    /\ calls' = [calls EXCEPT ![p] = Log(@, "run")]
    /\ runKw' = [runKw EXCEPT ![p] = Some(RunKwargs(args[p], IF img[p] = None THEN "" ELSE img[p][1]))]
    /\ \E outcome \in {"ok", "APIError"} :
        IF outcome = "ok"
        THEN /\ img[p] # None
             /\ runImage' = [runImage EXCEPT ![p] = Image(RefOf(img[p][1])[1],
                                                 ResolveImage(localTags, img[p][1]))]
             /\ localTags' = [localTags EXCEPT ![RefOf(img[p][1])] =
                                                 ResolveImage(localTags, img[p][1])]
             /\ health' = [health EXCEPT ![p] = "starting"]
             /\ out' = [out EXCEPT ![p] = Append(@, "started")]
             /\ pc' = [pc EXCEPT ![p] = After("run")]
             /\ UNCHANGED raised
        ELSE /\ Raise(p, "run", outcome)
             /\ pc' = [pc EXCEPT ![p] = "failed"]
             /\ UNCHANGED <<runImage, localTags, health, out>>
    /\ UNCHANGED <<args, img, health_status, networks, observed, found, netsBefore,
                   createKw, pulled>>

\* wait_healtcheck: one turn of the loop, and the message after the loop
WaitHealthcheck(p) ==
    /\ pc[p] = "wait_healtcheck"
    /\ calls' = [calls EXCEPT ![p] = Log(@, "wait_healtcheck")]
    /\ \E outcome \in ContainersGetOutcomes(health[p]) :
        IF outcome = "ok"
        THEN /\ health_status' = [health_status EXCEPT ![p] = health[p]]
             /\ observed' = [observed EXCEPT ![p] = @ \cup {health[p]}]
             /\ IF Ready(health[p])
                THEN /\ out' = [out EXCEPT ![p] = Append(@, "healthy")]
                     /\ pc' = [pc EXCEPT ![p] = After("wait_healtcheck")]
                ELSE UNCHANGED <<out, pc>>
             /\ UNCHANGED raised
        ELSE /\ Raise(p, "wait_healtcheck", outcome)
             /\ pc' = [pc EXCEPT ![p] = "failed"]
             /\ UNCHANGED <<health_status, observed, out>>
    /\ UNCHANGED <<args, img, networks, localTags, health, found, netsBefore, createKw,
                   runKw, runImage, pulled>>

\* print_network_settings: the heading, the lookup, the addresses
PrintNetworkSettings(p) ==
    /\ pc[p] = "print_network_settings"
    /\ calls' = [calls EXCEPT ![p] = Log(@, "print_network_settings")]
    /\ \E outcome \in ContainersGetOutcomes(health[p]) :
        IF outcome = "ok"
        THEN /\ out' = [out EXCEPT ![p] = @ \o <<"Container IPs:", "addresses">>]
             /\ pc' = [pc EXCEPT ![p] = After("print_network_settings")]
             /\ UNCHANGED raised
        ELSE /\ out' = [out EXCEPT ![p] = Append(@, "Container IPs:")]
             /\ Raise(p, "print_network_settings", outcome)
             /\ pc' = [pc EXCEPT ![p] = "failed"]
    /\ UNCHANGED <<args, img, health_status, networks, localTags, health, observed, found,
                   netsBefore, createKw, runKw, runImage, pulled>>

\* The engine runs the health check: the status becomes healthy or unhealthy.
HealthProbe(p) ==
    /\ health[p] \in HealthStates
    /\ \E h \in {"healthy", "unhealthy"} \ {health[p]} :
        health' = [health EXCEPT ![p] = h]
    /\ UNCHANGED <<pc, args, img, health_status, networks, localTags, calls, out, raised,
                   observed, found, netsBefore, createKw, runKw, runImage, pulled>>

\* The container exits and, started with remove=True, is removed.
ContainerExit(p) ==
    /\ health[p] \in HealthStates
    /\ health' = [health EXCEPT ![p] = "gone"]
    /\ UNCHANGED <<pc, args, img, health_status, networks, localTags, calls, out, raised,
                   observed, found, netsBefore, createKw, runKw, runImage, pulled>>

\* A step of invocation p.
Step(p) ==
    \/ PullImg(p)
    \/ DeclareNetwork(p)
    \/ NetworksCreate(p)
    \/ Run(p)
    \/ WaitHealthcheck(p)
    \/ PrintNetworkSettings(p)

Next ==
    \E p \in Procs :
        \/ Step(p)
        \/ HealthProbe(p)
        \/ ContainerExit(p)

\* The invocations in `active` start with a command line of argset; the
\* engine holds any networks and any local tags of the images they name
\* (tag ids drawn from tagIds).
InitWith(active, argset, tagIds) ==
    /\ args \in {[p \in Procs |-> IF p \in active THEN f[p] ELSE NoArgs] :
                    f \in [active -> argset]}
    /\ pc = [p \in Procs |-> IF p \in active THEN "pull_img" ELSE "off"]
    /\ LET usedNets == {args[p].network : p \in active}
           usedRefs == {r \in AllRefs : \E p \in active : r[1] = Repo(args[p].svc)}
       IN /\ networks \in {[n \in Networks |-> IF n \in usedNets THEN f[n] ELSE 0] :
                              f \in [usedNets -> {0, 1}]}
          /\ localTags \in {[r \in AllRefs |-> IF r \in usedRefs THEN f[r] ELSE 0] :
                              f \in [usedRefs -> tagIds]}
    /\ img = [p \in Procs |-> None]
    /\ health_status = [p \in Procs |-> "none"]
    /\ health = [p \in Procs |-> "none"]
    /\ calls = [p \in Procs |-> <<>>]
    /\ out = [p \in Procs |-> <<>>]
    /\ raised = [p \in Procs |-> {}]
    /\ observed = [p \in Procs |-> {}]
    /\ found = [p \in Procs |-> "none"]
    /\ netsBefore = [p \in Procs |-> networks]
    /\ createKw = [p \in Procs |-> None]
    /\ runKw = [p \in Procs |-> None]
    /\ runImage = [p \in Procs |-> None]
    /\ pulled = [p \in Procs |-> None]

\* One invocation, any command line, any engine state.
Init == InitWith({1}, AllArgs, {0, 1, 2})

Spec == Init /\ [][Next]_vars

\* A step of invocation p in which the engine answers the call: no error
\* propagates.
Progress(p) ==
    /\ Step(p)
    /\ (raised'[p] \ raised[p]) \subseteq {<<"declare_network", "NotFound">>}

\* The same, with the invocation's own steps taken when they can be: the
\* process is never suspended forever.  Nothing obliges the engine to fail,
\* to probe or to stop the container.
FairSpec == Init /\ [][Next]_vars /\ WF_vars(Progress(1))

\* NumProcs invocations at once, against an engine with no image yet.
InitConc == InitWith(Procs, ConcArgs, {0})

SpecConc == InitConc /\ [][Next]_vars

\* ------------------------------------------------------------ the claims

Count(log, step) == Cardinality({i \in 1..Len(log) : log[i] = step})

IsPrefix(s, t) == Len(s) <= Len(t) /\ \A i \in 1..Len(s) : s[i] = t[i]

Contains(s, x) == \E i \in 1..Len(s) : s[i] = x

\* The two orders of the engine calls of one invocation, with and without
\* the creation of the network.
LegalOrders ==
    {<<"pull_img", "declare_network", "run", "wait_healtcheck", "print_network_settings">>,
     <<"pull_img", "declare_network", "networks_create", "run", "wait_healtcheck",
       "print_network_settings">>}

\* C1: the engine calls of an invocation are issued in the order pull,
\* network lookup (and creation when the lookup found nothing), run, health
\* polls, network settings; the output follows the same order; the run call
\* is issued at most once, and exactly once in an invocation that got to
\* polling.
C1_StrictOrder ==
    \A p \in Procs :
        /\ \E o \in LegalOrders : IsPrefix(calls[p], o)
        /\ Contains(calls[p], "networks_create") => found[p] = "NotFound"
        /\ IsPrefix(out[p], <<"started", "healthy", "Container IPs:", "addresses">>)
        /\ Count(calls[p], "run") <= 1
        /\ pc[p] \in {"wait_healtcheck", "print_network_settings", "done"}
              => Count(calls[p], "run") = 1
        /\ pc[p] = "done"
              => /\ \E o \in LegalOrders : calls[p] = o
                 /\ out[p] = <<"started", "healthy", "Container IPs:", "addresses">>

\* An invocation that created its network ran to its end.
C1_Witness ==
    /\ pc[1] = "done"
    /\ calls[1] = <<"pull_img", "declare_network", "networks_create", "run",
                    "wait_healtcheck", "print_network_settings">>

\* declare_network returned normally in p.
DeclareNetworkReturned(p) ==
    \/ pc[p] \in {"run", "wait_healtcheck", "print_network_settings", "done"}
    \/ pc[p] = "failed" /\ Contains(calls[p], "run")

\* C2: declare_network creates the network if and only if the lookup
\* reported not-found: found, it issues no create call and the networks are
\* as they were; not found, it issues exactly one create call, attachable;
\* either way the network exists once declare_network has returned.
C2_CreateIffNotFound ==
    \A p \in Procs :
        /\ found[p] = "ok"
              => /\ netsBefore[p][args[p].network] >= 1
                 /\ ~Contains(calls[p], "networks_create")
                 /\ createKw[p] = None
                 /\ networks = netsBefore[p]
        /\ found[p] = "NotFound" => netsBefore[p][args[p].network] = 0
        /\ DeclareNetworkReturned(p)
              => /\ found[p] \in {"ok", "NotFound"}
                 /\ networks[args[p].network] >= 1
                 /\ found[p] = "NotFound"
                      => /\ Count(calls[p], "networks_create") = 1
                         /\ createKw[p] = Some([name |-> args[p].network,
                                                attachable |-> TRUE])
                         /\ networks = [netsBefore[p] EXCEPT ![args[p].network] = 1]

\* declare_network returned after creating the missing network.
C2_Witness ==
    /\ DeclareNetworkReturned(1)
    /\ found[1] = "NotFound"
    /\ networks[args[1].network] = 1

\* wait_healtcheck returned normally in p.
WaitHealthcheckReturned(p) ==
    \/ pc[p] \in {"print_network_settings", "done"}
    \/ pc[p] = "failed" /\ Contains(calls[p], "print_network_settings")

\* C3: wait_healtcheck returns normally only after a poll read the status
\* "healthy", and the healthy message and the addresses are printed only
\* after such a poll.
C3_HealthyObserved ==
    \A p \in Procs :
        (\/ WaitHealthcheckReturned(p)
         \/ Contains(out[p], "healthy")
         \/ Contains(out[p], "Container IPs:")
         \/ Contains(out[p], "addresses"))
            => /\ "healthy" \in observed[p]
               /\ health_status[p] = "healthy"

\* The polls read "starting" and "unhealthy" before "healthy", and the
\* command ended.
C3_Witness ==
    /\ pc[1] = "done"
    /\ observed[1] = {"starting", "unhealthy", "healthy"}

\* No engine call of p failed, the handled not-found of the lookup aside.
NoError(p) == raised[p] \subseteq {<<"declare_network", "NotFound">>}

\* C4: the poll loop has no timeout: while the container exists and is
\* never healthy the invocation stays in wait_healtcheck for ever; if the
\* status becomes and stays healthy (and no engine call fails) the loop ends
\* and the command prints the network settings.
C4_NoTimeout ==
    /\ ([](health[1] # "healthy") => [](~WaitHealthcheckReturned(1)))
    /\ (([](health[1] \notin {"healthy", "gone"}) /\ []NoError(1))
            => <>[](pc[1] = "wait_healtcheck"))
    /\ ((<>[](health[1] = "healthy") /\ []NoError(1))
            => <>(pc[1] = "done" /\ Contains(out[1], "addresses")))

\* The loop read "unhealthy", went on polling, and ended once the status was
\* healthy.
C4_Witness ==
    /\ pc[1] = "done"
    /\ "unhealthy" \in observed[1]
    /\ health[1] = "healthy"

\* C5: an engine error other than the lookup's not-found ends the invocation
\* at the call that raised it: no later call, no retry, and nothing of the
\* later steps done.
C5_ErrorsPropagate ==
    \A p \in Procs :
        /\ \A r \in raised[p] \ {<<"declare_network", "NotFound">>} :
              /\ pc[p] = "failed"
              /\ Last(calls[p]) = r[1]
        /\ \A step \in {"pull_img", "declare_network", "networks_create", "run",
                        "print_network_settings"} : Count(calls[p], step) <= 1
        /\ (\E e \in {"APIError"} : <<"pull_img", e>> \in raised[p])
              => /\ calls[p] = <<"pull_img">>
                 /\ createKw[p] = None /\ runKw[p] = None
                 /\ networks = netsBefore[p]
                 /\ health[p] = "none"
        /\ (\/ <<"declare_network", "APIError">> \in raised[p]
            \/ \E e \in {"APIError", "Conflict"} : <<"networks_create", e>> \in raised[p])
              => /\ runKw[p] = None
                 /\ health[p] = "none"
                 /\ ~Contains(calls[p], "run")
        /\ <<"run", "APIError">> \in raised[p]
              => /\ ~Contains(calls[p], "wait_healtcheck")
                 /\ out[p] = <<>>
        /\ (\E e \in {"APIError", "NotFound"} : <<"wait_healtcheck", e>> \in raised[p])
              => /\ ~Contains(out[p], "healthy")
                 /\ ~Contains(out[p], "Container IPs:")
                 /\ ~Contains(out[p], "addresses")
                 /\ ~Contains(calls[p], "print_network_settings")
        /\ (\E e \in {"APIError", "NotFound"} : <<"print_network_settings", e>> \in raised[p])
              => ~Contains(out[p], "addresses")

\* The container was removed while the loop polled: the lookup's not-found
\* ended the invocation.
C5_Witness ==
    /\ pc[1] = "failed"
    /\ <<"wait_healtcheck", "NotFound">> \in raised[1]
    /\ "unhealthy" \in observed[1]

\* The container port(s) each service listens on and the option that gives
\* the host port of each.
ExpectedPorts(a) ==
    CASE a.svc = "pg" -> {<<"5432", a.port>>}
      [] a.svc = "timescale" -> {<<"5432", a.port>>}
      [] a.svc = "rmq" -> {<<"5672", a.port>>, <<"15672", a.ui_port>>}
      [] a.svc = "redis" -> {<<"6379", a.port>>}
      [] a.svc = "scylla" -> {<<"9042", a.port>>}
      [] a.svc = "nats" -> {<<"4222", a.port>>}
      [] a.svc = "zk" -> {<<"2181", a.port>>}
      [] a.svc = "kafka" -> {<<"9094", a.port>>}

\* C6: the run call names an image reference that the engine resolves to the
\* image the same invocation pulled (the service's repository at the --tag
\* value), the --network value (the one given to declare_network), detach
\* and remove, a health check, and a port map from the service's container
\* port(s) to the host port option(s).
C6_RunCallArguments ==
    \A p \in Procs :
        runKw[p] # None =>
            LET kw == runKw[p][1]
                a == args[p]
            IN /\ pulled[p] = Image(Repo(a.svc), Registry(<<Repo(a.svc), a.tag>>))
               /\ img[p] # None /\ kw.image = img[p][1]
               /\ Image(RefOf(kw.image)[1], ResolveImage(localTags, kw.image)) = pulled[p]
               /\ runImage[p] # None => runImage[p] = pulled[p]
               /\ kw.network = a.network
               /\ found[p] \in {"ok", "NotFound"}
               /\ createKw[p] # None => createKw[p][1].name = kw.network
               /\ kw.detach /\ kw.remove
               /\ kw.healthcheck.retries > 0 /\ kw.healthcheck.interval_s > 0
               /\ kw.healthcheck.timeout_s > 0
               /\ {<<c, kw.ports[c]>> : c \in DOMAIN kw.ports} = ExpectedPorts(a)

\* The pulled image carries another local tag, pull_img returned that one,
\* and the engine ran the pulled image with both ports of rmq published.
C6_Witness ==
    /\ health[1] = "starting"
    /\ args[1].svc = "rmq" /\ args[1].ui_port # 15672
    /\ runKw[1][1].image # RefStr(<<Repo("rmq"), args[1].tag>>)
    /\ runImage[1] = pulled[1]

\* The suffix of the volume name and the data directory of the services
\* that keep their data.
VolumeSuffix(svc) ==
    CASE svc = "pg" -> "-pg-db" [] svc = "timescale" -> "-ts-db" [] svc = "scylla" -> "-scylla-db"

DataDir(svc) ==
    CASE svc = "pg" -> "/var/lib/postgresql/data"
      [] svc = "timescale" -> "/var/lib/postgresql/data"
      [] svc = "scylla" -> "/var/lib/scylla"

\* C7: the run call has a volume if and only if the subcommand is pg,
\* timescale or scylla and a name was given; it is then the one volume
\* "<name>-pg-db", "<name>-ts-db" or "<name>-scylla-db", mounted read-write
\* on the service's data directory.
C7_VolumeIffNamed ==
    \A p \in Procs :
        runKw[p] # None =>
            LET kw == runKw[p][1]
                a == args[p]
                persistent == a.svc \in {"pg", "timescale", "scylla"} /\ a.name # None
            IN /\ (DOMAIN kw.volumes # {}) <=> persistent
               /\ persistent =>
                    /\ DOMAIN kw.volumes = {a.name[1] \o VolumeSuffix(a.svc)}
                    /\ \A v \in DOMAIN kw.volumes :
                          kw.volumes[v] = [bind |-> DataDir(a.svc), mode |-> "rw"]

\* scylla was run under a name, with its volume.
C7_Witness ==
    /\ runKw[1] # None
    /\ args[1].svc = "scylla" /\ args[1].name = Some("db1")
    /\ DOMAIN runKw[1][1].volumes = {"db1-scylla-db"}

\* C8: the hostname of the run call is the name when a non-empty name is
\* given and the service's default otherwise; the container name is the
\* given name or None; so the hostname is never empty and is the container
\* name whenever a (non-empty) name is given.
C8_Hostname ==
    \A p \in Procs :
        runKw[p] # None =>
            LET kw == runKw[p][1]
                a == args[p]
                named == a.name # None /\ a.name # Some("")
            IN /\ kw.name = a.name
               /\ kw.hostname = IF named THEN a.name[1] ELSE a.svc
               /\ kw.hostname # ""
               /\ named => kw.name = Some(kw.hostname)

\* zk was run with an empty name: the hostname is the default.
C8_Witness ==
    /\ runKw[1] # None
    /\ args[1].svc = "zk" /\ args[1].name = Some("")
    /\ runKw[1][1].hostname = "zk"

\* C9 (as claimed): in kafka's run call the host of the controller quorum
\* voter and the host of the PLAINTEXT advertised listener are the hostname
\* of the container.
C9_KafkaHostsAreHostname ==
    \A p \in Procs :
        (runKw[p] # None /\ args[p].svc = "kafka") =>
            LET kw == runKw[p][1] IN
            /\ kw.environment["KAFKA_CFG_CONTROLLER_QUORUM_VOTERS"]
                  = "0@" \o kw.hostname \o ":9093"
            /\ kw.environment["KAFKA_CFG_ADVERTISED_LISTENERS"]
                  = "PLAINTEXT://" \o kw.hostname \o ":9092,EXTERNAL://localhost:9094"

\* The engine refused no call for a reason of its own.
NoEngineFailure == \A p \in Procs : \A r \in raised[p] : r[2] # "APIError"

\* C10 (as claimed): however the lookups and creations of concurrent
\* invocations interleave (the engine itself not failing), at most one
\* create call is issued for a network, no create call is refused as a
\* duplicate, and a single network of that name exists.
C10_OneCreatePerNetwork ==
    NoEngineFailure =>
        \A n \in Networks :
            /\ Cardinality({p \in Procs : createKw[p] # None /\ createKw[p][1].name = n}) <= 1
            /\ \A p \in Procs : <<"networks_create", "Conflict">> \notin raised[p]
            /\ networks[n] <= 1

====
